---- MODULE Spec2Model ----
(***************************************************************************)
(* A model of the Nowack_Lab instrument toolkit: the ArrayTune feedback    *)
(* loop (Procedures/array_tune.py), the HDF5 Dataset layer                 *)
(* (Utilities/dataset.py), the NIDAQ sweep driver (Instruments/nidaq.py),  *)
(* the SR830 lock-in setters (Instruments/lockin.py) and the gate loop of  *)
(* HF2LI.aux_sweep (Instruments/zurich.py).                                *)
(*                                                                         *)
(* Units.  Voltages measured by ArrayTune are integers in mV; the SAA      *)
(* attributes A_flux / S_flux are integers in 1/1000 of their unit, so     *)
(* that value + conversion*error is exact.  DAQ voltages are integers in V,*)
(* except in a sweep with accel, whose lists are integers in 1/AccelScale V *)
(* so that the quadratic ramps of accel_function are exact.  The floats of *)
(* the SR830 tables are fixed-point numbers [w, f] = w + f * 1e-9.         *)
(***************************************************************************)
EXTENDS Integers, Sequences, FiniteSets, TLC

VARIABLES
    \* ---- ArrayTune ----
    tpc,        \* position of run(): "idle", "tune", "lock", "done"
    attempts,   \* the attempts argument of the invocation about to run
    tunePasses, \* invocations of tune_squid in the current chain
    lockPasses, \* invocations of lock_squid in the current chain
    squid,      \* the attributes of self.squidarray
    calls,      \* instrument operations made by the last invocation, in order
    adj,        \* the arguments of the last adjust() call, or NoAdj
    nops,       \* instrument operations made since run() started
    result,     \* what tune_squid returned (None before it returns)
    \* ---- Dataset ----
    files,      \* the HDF5 files on disk: file name -> (dataset path -> contents)
    dpc,        \* position of the running Dataset method: "idle", "write", "appenddata"
    cur,        \* the arguments of the running (or last) Dataset method
    work,       \* the _writetoh5 calls still to make; the head is the running one
    areq,       \* the arguments of the running _appenddatah5 invocation
    visited,    \* the key lists dictvisititems passed to its function, in order
    created,    \* the datasets the running (or last) method created, in order
    last,       \* how the last method ended: "none", "ok", or the exception raised
    leaked,     \* files a method left open when it ended
    answer,     \* what the user typed at the last _appenddatah5 prompt
    got,        \* what the last get() returned
    ncalls,     \* Dataset methods called so far
    \* ---- NIDAQ ----
    inputs_to_monitor, \* the names of the monitored ai channels, in list order
    heap,       \* the Python objects of the last call: the caller's, then the callee's
    heap0,      \* the caller's objects as they were when the call was made
    origRef,    \* the object passed as orig_data
    dataRef,    \* send_receive's internal data dict
    aoWrites,   \* the voltages the last call wrote to output channels, in order
    ntasks,     \* the tasks the last call ran
    nsamples,   \* n_samples of the last task
    dataIn,     \* the data_in the last send_receive returned
    timeOut,    \* the time axis the last send_receive returned
    dcur,       \* the arguments of the last NIDAQ call, and the inputs monitored then
    dlast,      \* how the last NIDAQ call ended
    sweepV,     \* the dict V of the last sweep as the sweep left it
    dcalls,     \* NIDAQ methods called so far
    \* ---- SR830 ----
    written,    \* the commands the last assignment wrote to the lock-in, in order
    lcur,       \* the attribute and value of the last assignment
    llast,      \* how the last assignment ended
    lcalls,     \* assignments made so far
    \* ---- HF2LI.aux_sweep ----
    zpc,        \* position of aux_sweep: "idle", "top", "gatewait", "start",
                \* "configure", "sweepwait", "tail", "done"
    zargs,      \* the arguments of the call
    gatesweep,  \* the gate voltages still to do (the caller's list), or False
    current_gate, \* the local current_gate
    zdata,      \* the local data: str(current_gate) -> what sweeper.read returned
    keithley,   \* the settings the call made on the Keithley, in order
    auxOut,     \* the values the call swept the aux output to, in order
    sweeper,    \* the local sweeper: unbound, or its state and subscription
    pathBound,  \* whether the local path is bound
    sweepsRun,  \* the gates of the sweeps executed, in order
    zexit,      \* how the gate loop was left
    zlast       \* how aux_sweep ended

tuneVars == <<tpc, attempts, tunePasses, lockPasses, squid, calls, adj, nops, result>>

dataVars == <<files, dpc, cur, work, areq, visited, created, last, leaked, answer, got, ncalls>>

daqVars == <<inputs_to_monitor, heap, heap0, origRef, dataRef, aoWrites, ntasks,
             nsamples, dataIn, timeOut, dcur, dlast, sweepV, dcalls>>

lockinVars == <<written, lcur, llast, lcalls>>

ziVars == <<zpc, zargs, gatesweep, current_gate, zdata, keithley, auxOut, sweeper,
            pathBound, sweepsRun, zexit, zlast>>

vars == <<tuneVars, dataVars, daqVars, lockinVars, ziVars>>

None == "None"

Abs(x) == IF x < 0 THEN -x ELSE x

(***************************************************************************)
(* Dataset: strings, HDF5 paths and files                                  *)
(***************************************************************************)

\* A string is a sequence of characters; "/" separates the keys of a path.
Sep == "/"
NaN == "nan"
Zero == "0.0"

\* the + of two strings
Concat(s, t) == s \o t

\* sep.join(path), path a list of strings
RECURSIVE JoinSep(_)
JoinSep(path) ==
    IF Len(path) = 0 THEN <<>>
    ELSE IF Len(path) = 1 THEN path[1]
    ELSE path[1] \o <<Sep>> \o JoinSep(Tail(path))

\* path.split('/'): empty pieces are kept
RECURSIVE SplitStr(_)
SplitStr(s) ==
    IF \A i \in 1..Len(s) : s[i] # Sep THEN <<s>>
    ELSE LET i == CHOOSE j \in 1..Len(s) :
                      s[j] = Sep /\ \A k \in 1..(j-1) : s[k] # Sep
         IN  <<SubSeq(s, 1, i-1)>> \o SplitStr(SubSeq(s, i+1, Len(s)))

NonEmpty(k) == Len(k) > 0

\* The object an HDF5 path names: its keys, empty components dropped.
H5Norm(s) == SelectSeq(SplitStr(s), NonEmpty)

IsPrefix(p, q) == Len(p) <= Len(q) /\ SubSeq(q, 1, Len(p)) = p
IsProperPrefix(p, q) == Len(p) < Len(q) /\ SubSeq(q, 1, Len(p)) = p

\* A file holds datasets; its groups are the proper prefixes of their paths.
EmptyH5 == <<>>
IsDataset(h5, p) == p \in DOMAIN h5
IsGroup(h5, p) == p = <<>> \/ \E q \in DOMAIN h5 : IsProperPrefix(p, q)
\* f[path] succeeds
H5Has(h5, p) == IsDataset(h5, p) \/ IsGroup(h5, p)
\* the path runs through a dataset: nothing can be opened or created there
Blocked(h5, p) == \E q \in DOMAIN h5 : IsProperPrefix(q, p)

\* h5py.File(filename, 'a'): the file's contents, created empty when missing
OpenA(fs, fn) == IF fn \in DOMAIN fs THEN fs[fn] ELSE EmptyH5
Put(fs, fn, h5) == (fn :> h5) @@ fs

\* The file of the Dataset object, and the names _appenddatah5 derives from it.
FileName == [pre |-> 0, suf |-> 0]
\* 'antioverwrite_' + filename
AntiPrefix(fn) == [fn EXCEPT !.pre = @ + 1]
\* filename + '_antioverwrite'
AntiSuffix(fn) == [fn EXCEPT !.suf = @ + 1]

\* Python values: a numpy array of floats, or a dict (keys in insertion order)
Arr(v) == [t |-> "arr", items |-> <<>>, v |-> v]
Dict(items) == [t |-> "dict", items |-> items, v |-> <<>>]
Item(k, v) == [k |-> k, v |-> v]
IsDict(obj) == obj.t = "dict"

\* sanitize(data): float arrays are kept, dicts are rebuilt key by key
RECURSIVE Sanitize(_)
Sanitize(data) ==
    IF IsDict(data)
    THEN Dict([i \in 1..Len(data.items) |->
                 Item(data.items[i].k, Sanitize(data.items[i].v))])
    ELSE data

\* a visit that does not descend into sub-dicts
RECURSIVE ShallowVisit(_, _)
ShallowVisit(items, keylist) ==
    IF Len(items) = 0 THEN <<>>
    ELSE <<[path |-> keylist \o <<items[1].k>>, obj |-> items[1].v]>>
         \o ShallowVisit(Tail(items), keylist)

\* dictvisititems / recursivevisit: the calls function(keylist + [key], obj),
\* in order
RECURSIVE RecursiveVisit(_, _)
RecursiveVisit(items, keylist) ==
    IF Len(items) = 0 THEN <<>>
    ELSE LET key == items[1].k
             obj == items[1].v
         IN  <<[path |-> keylist \o <<key>>, obj |-> obj]>>
             \o (IF IsDict(obj) THEN RecursiveVisit(obj.items, keylist \o <<key>>)
                               ELSE <<>>)
             \o RecursiveVisit(Tail(items), keylist)

DictVisitItems(dictionary) == RecursiveVisit(dictionary.items, <<>>)

\* _loadhdf5: h5path = pathtowrite + sep.join(path)
H5Path(pathtowrite, path) == Concat(pathtowrite, JoinSep(path))

IsLeafVisit(x) == ~IsDict(x.obj)

\* the _writetoh5 calls append() makes for a dict, in order
DictWrites(pathtowrite, dictionary) ==
    LET leaves == SelectSeq(DictVisitItems(dictionary), IsLeafVisit)
    IN  [i \in 1..Len(leaves) |->
           [path |-> H5Path(pathtowrite, leaves[i].path),
            target |-> H5Path(pathtowrite, leaves[i].path),
            data |-> leaves[i].obj.v,
            prompted |-> FALSE]]

\* _writetoh5 that replaces the data found at the path
WriteOutcomeOverwrite(h5, path, data) ==
    LET p == H5Norm(path)
    IN  IF IsDataset(h5, p) THEN [kind |-> "created", h5 |-> (p :> data) @@ h5]
        ELSE IF H5Has(h5, p) THEN [kind |-> "prompt", h5 |-> h5]
        ELSE IF Blocked(h5, p) THEN [kind |-> "raise", h5 |-> h5]
        ELSE [kind |-> "created", h5 |-> (p :> data) @@ h5]

\* One invocation of _writetoh5 on the open file: f[path] found (close and
\* prompt), or KeyError and create_dataset, which raises when the path runs
\* through a dataset.
WriteOutcome(h5, path, data) ==
    LET p == H5Norm(path)
    IN  IF H5Has(h5, p) THEN [kind |-> "prompt", h5 |-> h5]
        ELSE IF Blocked(h5, p) THEN [kind |-> "raise", h5 |-> h5]
        ELSE [kind |-> "created", h5 |-> (p :> data) @@ h5]

(***************************************************************************)
(* Dataset: inputs                                                         *)
(***************************************************************************)

\* Dataset methods one behaviour calls.
MaxCalls == 3

Ka == <<"a">>
Kb == <<"b">>
Kg == <<"g">>

\* paths given to append() with plain data, and typed at the prompt
PlainPaths == {<<"a">>, <<"g", "/", "a">>, <<"g">>, <<"a", "/", "b">>}
PromptPaths == {<<"b">>, <<"g", "/", "a">>}
\* pathtowrite given with a dict: '', 'g/' and 'g'
DictPaths == {<<>>, <<"g", "/">>, <<"g">>}
\* arrays given to append()
ArrInputs == {<<NaN, NaN>>, <<"1.0">>, <<"2.0", "2.0">>}
\* dicts given to append(): {'a': x}, {'g': {'a': x, 'b': y}}, {'a': {'b': {}}, 'b': x}
DictInputs ==
    { Dict(<<Item(Ka, Arr(<<"1.0">>))>>),
      Dict(<<Item(Kg, Dict(<<Item(Ka, Arr(<<"1.0">>)), Item(Kb, Arr(<<NaN, NaN>>))>>))>>),
      Dict(<<Item(Ka, Dict(<<Item(Kb, Dict(<<>>))>>)), Item(Kb, Arr(<<"2.0", "2.0">>))>>) }

NoCall == [op |-> None, path |-> <<>>, data |-> Arr(<<>>), slice |-> None]
NoReq == [file |-> FileName, arr |-> <<>>, path |-> <<>>, slice |-> None]

\* The state of a Dataset object no method of which has been called.
DataIdle ==
    /\ files = <<>>
    /\ dpc = "idle"
    /\ cur = NoCall
    /\ work = <<>>
    /\ areq = NoReq
    /\ visited = <<>>
    /\ created = <<>>
    /\ last = "none"
    /\ leaked = {}
    /\ answer = None
    /\ got = None
    /\ ncalls = 0

(***************************************************************************)
(* Dataset: append without a slice                                         *)
(***************************************************************************)

\* append(pathtowrite, datatowrite) with plain data: one _writetoh5 call
AppendPlain ==
    /\ dpc = "idle"
    /\ ncalls < MaxCalls
    /\ \E path \in PlainPaths, v \in ArrInputs :
        /\ cur' = [op |-> "append", path |-> path, data |-> Sanitize(Arr(v)),
                   slice |-> None]
        /\ work' = <<[path |-> path, target |-> path, data |-> Sanitize(Arr(v)).v,
                      prompted |-> FALSE]>>
    /\ dpc' = "write"
    /\ visited' = <<>>
    /\ created' = <<>>
    /\ ncalls' = ncalls + 1
    /\ UNCHANGED <<files, areq, last, leaked, answer, got>>
    /\ UNCHANGED <<tuneVars, daqVars, lockinVars, ziVars>>

\* append(pathtowrite, datatowrite) with a dict: dictvisititems(_loadhdf5)
AppendDict ==
    /\ dpc = "idle"
    /\ ncalls < MaxCalls
    /\ \E path \in DictPaths, d \in DictInputs :
        LET clean == Sanitize(d)
            visits == DictVisitItems(clean)
            writes == DictWrites(path, clean)
        IN  /\ cur' = [op |-> "appenddict", path |-> path, data |-> d, slice |-> None]
            /\ visited' = [i \in 1..Len(visits) |-> visits[i].path]
            /\ work' = writes
            /\ dpc' = IF Len(writes) = 0 THEN "idle" ELSE "write"
            /\ last' = IF Len(writes) = 0 THEN "ok" ELSE last
    /\ created' = <<>>
    /\ ncalls' = ncalls + 1
    /\ UNCHANGED <<files, areq, leaked, answer, got>>
    /\ UNCHANGED <<tuneVars, daqVars, lockinVars, ziVars>>

\* one invocation of _writetoh5(data, path)
WriteToH5 ==
    /\ dpc = "write"
    /\ LET w == work[1]
           out == WriteOutcome(OpenA(files, FileName), w.path, w.data)
       IN  \/ /\ out.kind = "prompt"
              \* f.close(); newpath = input(...); self._writetoh5(**kwargs)
              /\ \E newpath \in PromptPaths :
                    work' = <<[w EXCEPT !.path = newpath, !.prompted = TRUE]>>
                            \o Tail(work)
              /\ files' = Put(files, FileName, out.h5)
              /\ UNCHANGED <<dpc, created, last, leaked>>
           \/ /\ out.kind = "raise"
              \* create_dataset raises; f stays open
              /\ files' = Put(files, FileName, out.h5)
              /\ work' = <<>>
              /\ dpc' = "idle"
              /\ last' = "raise"
              /\ leaked' = leaked \cup {FileName}
              /\ UNCHANGED created
           \/ /\ out.kind = "created"
              /\ files' = Put(files, FileName, out.h5)
              /\ created' = Append(created, [target |-> w.target, at |-> H5Norm(w.path),
                                             data |-> w.data, prompted |-> w.prompted])
              /\ work' = Tail(work)
              /\ dpc' = IF Len(work) = 1 THEN "idle" ELSE "write"
              /\ last' = IF Len(work) = 1 THEN "ok" ELSE last
              /\ UNCHANGED leaked
    /\ UNCHANGED <<cur, areq, visited, answer, got, ncalls>>
    /\ UNCHANGED <<tuneVars, daqVars, lockinVars, ziVars>>

(***************************************************************************)
(* Dataset: append with a slice                                            *)
(***************************************************************************)

\* A slice(lo, hi) of a one-dimensional array of length n selects the
\* (1-based) positions lo+1 .. min(hi, n).
Slice(lo, hi) == [lo |-> lo, hi |-> hi]
SliceIdx(n, sl) == {i \in 1..n : sl.lo < i /\ i <= sl.hi}
\* dataset[slice]
SliceOf(a, sl) == [j \in 1..Cardinality(SliceIdx(Len(a), sl)) |-> a[sl.lo + j]]
\* dataset[slice] = numpyarray, the shapes being equal
Assign(a, sl, arr) ==
    [i \in 1..Len(a) |-> IF i \in SliceIdx(Len(a), sl) THEN arr[i - sl.lo] ELSE a[i]]
\* np.all(np.isnan(x))
AllNaN(x) == \A i \in 1..Len(x) : x[i] = NaN
\* create_dataset(path, shape = np.shape(dataset)): filled with zeros
Zeros(n) == [i \in 1..n |-> Zero]

\* a comparison with the shape of the whole dataset
ShapeDiffersFromDataset(arr, a, sl) == Len(arr) # Len(a)

\* np.shape(numpyarray) != np.shape(dataset[slice])
ShapeDiffers(arr, a, sl) == Len(arr) # Len(SliceOf(a, sl))

\* The else branch of _appenddatah5 on the open files f and fao: create the
\* array in fao and assign the slice; ok is FALSE when create_dataset raises.
AntiOverwrite(f, fao, p, sl, arr) ==
    IF H5Has(fao, p) \/ Blocked(fao, p)
    THEN [ok |-> FALSE, f |-> f, fao |-> fao]
    ELSE [ok |-> TRUE,
          f |-> (p :> Assign(f[p], sl, arr)) @@ f,
          fao |-> (p :> Zeros(Len(f[p]))) @@ fao]

Slices == {Slice(0, 1), Slice(0, 2), Slice(1, 2)}
SlicePaths == {<<"a">>, <<"g", "/", "a">>, <<"b">>}
Answers == {"OVERWRITE", "no"}

\* append(pathtowrite, datatowrite, slice) with an array and a slice
AppendSlice ==
    /\ dpc = "idle"
    /\ ncalls < MaxCalls
    /\ \E path \in SlicePaths, v \in ArrInputs, sl \in Slices :
        /\ cur' = [op |-> "appendslice", path |-> path, data |-> Sanitize(Arr(v)),
                   slice |-> sl]
        /\ areq' = [file |-> FileName, arr |-> Sanitize(Arr(v)).v, path |-> path,
                    slice |-> sl]
    /\ dpc' = "appenddata"
    /\ visited' = <<>>
    /\ created' = <<>>
    /\ answer' = None
    /\ ncalls' = ncalls + 1
    /\ UNCHANGED <<files, work, last, leaked, got>>
    /\ UNCHANGED <<tuneVars, daqVars, lockinVars, ziVars>>

\* one invocation of _appenddatah5(filename, numpyarray, pathtowrite, slice)
AppendDataH5 ==
    /\ dpc = "appenddata"
    /\ LET fn == areq.file
           p == H5Norm(areq.path)
           sl == areq.slice
           arr == areq.arr
       IN  IF fn \notin DOMAIN files
           THEN \* h5py.File(filename, 'r+') raises
                /\ last' = "raise"
                /\ dpc' = "idle"
                /\ UNCHANGED <<files, leaked, answer, areq>>
           ELSE IF ~IsDataset(files[fn], p)
           THEN \* f[pathtowrite] or dataset[slice] raises; f stays open
                /\ last' = "raise"
                /\ dpc' = "idle"
                /\ leaked' = leaked \cup {fn}
                /\ UNCHANGED <<files, answer, areq>>
           ELSE IF ShapeDiffers(arr, files[fn][p], sl)
           THEN \* f.close(); raise Exception('Slice and data are not the same shape')
                /\ last' = "raise:shape"
                /\ dpc' = "idle"
                /\ UNCHANGED <<files, leaked, answer, areq>>
           ELSE IF AllNaN(SliceOf(files[fn][p], sl))
           THEN /\ files' = Put(files, fn, (p :> Assign(files[fn][p], sl, arr)) @@ files[fn])
                /\ last' = "ok"
                /\ dpc' = "idle"
                /\ UNCHANGED <<leaked, answer, areq>>
           ELSE \E shouldoverwrite \in Answers :
                /\ answer' = shouldoverwrite
                /\ IF shouldoverwrite = "OVERWRITE"
                   THEN /\ files' = Put(files, fn,
                                        (p :> Assign(files[fn][p], sl, arr)) @@ files[fn])
                        /\ last' = "ok"
                        /\ dpc' = "idle"
                        /\ UNCHANGED <<leaked, areq>>
                   ELSE LET ao == AntiOverwrite(files[fn], OpenA(files, AntiPrefix(fn)),
                                               p, sl, arr)
                        IN  /\ files' = Put(Put(files, AntiPrefix(fn), ao.fao), fn, ao.f)
                            /\ UNCHANGED leaked
                            /\ IF ao.ok
                               THEN /\ last' = "ok"
                                    /\ dpc' = "idle"
                                    /\ UNCHANGED areq
                               ELSE \* self._appenddatah5(filename + '_antioverwrite', ...)
                                    /\ areq' = [areq EXCEPT !.file = AntiSuffix(fn)]
                                    /\ UNCHANGED <<last, dpc>>
    /\ UNCHANGED <<cur, work, visited, created, got, ncalls>>
    /\ UNCHANGED <<tuneVars, daqVars, lockinVars, ziVars>>

(***************************************************************************)
(* Dataset: get                                                            *)
(***************************************************************************)

Leaf(v) == [t |-> "leaf", v |-> v, kids |-> <<>>]
Node(kids) == [t |-> "dict", v |-> <<>>, kids |-> kids]

\* _loaddict(path, obj) for a dataset: put the contents at the nested keys of
\* path.split('/'), creating the dicts on the way
RECURSIVE PutNested(_, _, _)
PutNested(d, listpath, val) ==
    LET key == listpath[1]
    IN  IF Len(listpath) = 1 THEN (key :> Leaf(val)) @@ d
        ELSE LET sub == IF key \in DOMAIN d THEN d[key].kids ELSE <<>>
             IN  (key :> Node(PutNested(sub, Tail(listpath), val))) @@ d

LoadDict(datadict, path, val) == PutNested(datadict, SplitStr(path), val)

\* group.visititems(_loaddict): _loaddict applied to every dataset below the
\* group, under its name relative to the group
RECURSIVE VisitItems(_, _, _, _)
VisitItems(h5, group, todo, datadict) ==
    IF todo = {} THEN datadict
    ELSE LET q == CHOOSE x \in todo : TRUE
             name == JoinSep(SubSeq(q, Len(group) + 1, Len(q)))
         IN  VisitItems(h5, group, todo \ {q}, LoadDict(datadict, name, h5[q]))

Below(h5, group) == {q \in DOMAIN h5 : IsProperPrefix(group, q)}

\* the group get() walks: f itself
VisitedGroup(p) == <<>>

\* get(path) on the open file
GetOutcome(h5, path) ==
    LET p == H5Norm(path)
    IN  IF IsDataset(h5, p) THEN [kind |-> "data", v |-> h5[p], d |-> <<>>]
        ELSE IF IsGroup(h5, p) /\ ~Blocked(h5, p)
        THEN [kind |-> "dict", v |-> <<>>,
              d |-> VisitItems(h5, VisitedGroup(p), Below(h5, VisitedGroup(p)), <<>>)]
        ELSE [kind |-> "raise", v |-> <<>>, d |-> <<>>]

GetPaths == {<<"g">>, <<"a">>, <<"g", "/", "a">>, <<"/">>}

\* get(path)
Get ==
    /\ dpc = "idle"
    /\ ncalls < MaxCalls
    /\ \E path \in GetPaths :
        /\ cur' = [op |-> "get", path |-> path, data |-> Arr(<<>>), slice |-> None]
        /\ IF FileName \notin DOMAIN files
           THEN \* h5py.File(self.filename, 'r') raises
                /\ got' = None
                /\ last' = "raise"
                /\ UNCHANGED leaked
           ELSE LET out == GetOutcome(files[FileName], path)
                IN  IF out.kind = "raise"
                    THEN \* f[path] raises KeyError; f stays open
                         /\ got' = None
                         /\ last' = "raise"
                         /\ leaked' = leaked \cup {FileName}
                    ELSE /\ got' = out
                         /\ last' = "ok"
                         /\ UNCHANGED leaked
    /\ visited' = <<>>
    /\ created' = <<>>
    /\ ncalls' = ncalls + 1
    /\ UNCHANGED <<files, dpc, work, areq, answer>>
    /\ UNCHANGED <<tuneVars, daqVars, lockinVars, ziVars>>

NextData == AppendPlain \/ AppendDict \/ WriteToH5 \/ AppendSlice \/ AppendDataH5 \/ Get

(***************************************************************************)
(* ArrayTune                                                               *)
(***************************************************************************)

\* squid_tol = 100e-3 V, aflux_tol = 10e-3 V, in mV
squid_tol == 100
aflux_tol == 10
\* self.conversion
conversion == 10
\* the limits adjust() compares against (0 and 150) and its jump of 50, in 1/1000
FluxLow == 0
FluxHigh == 150000
FluxJump == 50000
\* the default of the attempts argument
DefaultAttempts == 5

\* the offsets given to the constructor (defaults 0.0), in mV
sflux_offset == 0
aflux_offset == 0

\* Passes after which the model stops a chain; the code never gets there.
MaxPasses == 8

\* Mean SAA voltages (mV) the DAQ may report in one pass.
Errors == {-16000, -200, -5, 5, 10, 100, 16000}
\* Values of A_flux the SAA may hold when run() starts.
StartFlux == {0, 75000, 150000}

NoAdj == [attr |-> None, value |-> 0, error |-> 0]

SetOp(attr, v) == [op |-> "set", attr |-> attr, v |-> v]
CallOp(name) == [op |-> name, attr |-> None, v |-> 0]

\* adjust() with the conversion factor forgotten in the direct correction
AdjustedValueNoConversion(value, error) ==
    IF value + error * conversion < FluxLow THEN value + FluxJump
    ELSE IF value + error * conversion > FluxHigh THEN 0
    ELSE value + error

\* adjust(attr, error): the new value of the attribute
AdjustedValue(value, error) ==
    IF value + error * conversion < FluxLow THEN value + FluxJump
    ELSE IF value + error * conversion > FluxHigh THEN 0
    ELSE value + conversion * error

\* adjust(attr, error): the instrument operations it makes, in order
AdjustOps(attr, value, error) ==
    <<SetOp(attr, AdjustedValue(value, error)), CallOp("reset")>>

\* tune_squid_setup(): the operations it makes, in order
SetupOps ==
    <<CallOp("lockArray"), SetOp("S_flux_lim", 150), SetOp("S_flux", 0),
      CallOp("testInput"), CallOp("testSignalOn"), CallOp("S_bias"),
      CallOp("sensitivityHigh"), CallOp("reset")>>

\* acquire(): send_receive, then zero the DAQ output
AcquireOps == <<CallOp("send_receive"), CallOp("zeroTest")>>

\* lock_squid(): the operations before the error is compared
LockOps == <<CallOp("lockSquid"), CallOp("testSignalOff"), CallOp("reset"),
             CallOp("monitor")>>

\* a recursive call that passes attempts on unchanged
SameAttempts(a) == a

\* the attempts argument of the recursive call
NextAttempts(a) == a - 1

\* a chain that never gives up
NeverOutOfAttempts(a) == FALSE

\* the test that ends a chain with False
OutOfAttempts(a) == a = 0

InitTune ==
    /\ tpc = "idle"
    /\ attempts = DefaultAttempts
    /\ tunePasses = 0
    /\ lockPasses = 0
    /\ squid \in [A_flux : StartFlux, S_flux : {0}]
    /\ calls = <<>>
    /\ adj = NoAdj
    /\ nops = 0
    /\ result = None

\* run(): self.istuned = self.tune_squid()
Run ==
    /\ tpc = "idle"
    /\ tpc' = "tune"
    /\ attempts' = DefaultAttempts
    /\ UNCHANGED <<tunePasses, lockPasses, squid, calls, adj, nops, result>>
    /\ UNCHANGED <<dataVars, daqVars, lockinVars, ziVars>>

\* one invocation of tune_squid(attempts)
TuneSquid ==
    /\ tpc = "tune"
    /\ tunePasses < MaxPasses
    /\ \E meas \in Errors :
        LET error == meas - aflux_offset
            sq0 == [squid EXCEPT !.S_flux = 0]
        IN  /\ tunePasses' = tunePasses + 1
            /\ lockPasses' = lockPasses
            /\ IF Abs(error) < aflux_tol
               THEN \* return self.lock_squid()
                    /\ tpc' = "lock"
                    /\ attempts' = DefaultAttempts
                    /\ squid' = sq0
                    /\ calls' = SetupOps \o AcquireOps
                    /\ adj' = NoAdj
                    /\ result' = result
               ELSE IF OutOfAttempts(attempts)
               THEN /\ tpc' = "done"
                    /\ attempts' = attempts
                    /\ squid' = sq0
                    /\ calls' = SetupOps \o AcquireOps
                    /\ adj' = NoAdj
                    /\ result' = FALSE
               ELSE /\ tpc' = "tune"
                    /\ attempts' = NextAttempts(attempts)
                    /\ squid' = [sq0 EXCEPT !.A_flux = AdjustedValue(sq0.A_flux, error)]
                    /\ calls' = SetupOps \o AcquireOps
                                  \o AdjustOps("A_flux", sq0.A_flux, error)
                    /\ adj' = [attr |-> "A_flux", value |-> sq0.A_flux, error |-> error]
                    /\ result' = result
            /\ nops' = nops + Len(calls')
    /\ UNCHANGED <<dataVars, daqVars, lockinVars, ziVars>>

\* one invocation of lock_squid(attempts)
LockSquid ==
    /\ tpc = "lock"
    /\ lockPasses < MaxPasses
    /\ \E meas \in Errors :
        LET error == meas - sflux_offset
        IN  /\ lockPasses' = lockPasses + 1
            /\ tunePasses' = tunePasses
            /\ IF Abs(error) < squid_tol
               THEN /\ tpc' = "done"
                    /\ attempts' = attempts
                    /\ squid' = squid
                    /\ calls' = LockOps
                    /\ adj' = NoAdj
                    /\ result' = TRUE
               ELSE IF OutOfAttempts(attempts)
               THEN /\ tpc' = "done"
                    /\ attempts' = attempts
                    /\ squid' = squid
                    /\ calls' = LockOps
                    /\ adj' = NoAdj
                    /\ result' = FALSE
               ELSE /\ tpc' = "lock"
                    /\ attempts' = NextAttempts(attempts)
                    /\ squid' = [squid EXCEPT !.S_flux = AdjustedValue(squid.S_flux, error)]
                    /\ calls' = LockOps \o AdjustOps("S_flux", squid.S_flux, error)
                    /\ adj' = [attr |-> "S_flux", value |-> squid.S_flux, error |-> error]
                    /\ result' = result
            /\ nops' = nops + Len(calls')
    /\ UNCHANGED <<dataVars, daqVars, lockinVars, ziVars>>

NextTune == Run \/ TuneSquid \/ LockSquid

(***************************************************************************)
(* NIDAQ                                                                   *)
(***************************************************************************)

\* NIDAQ methods one behaviour calls.
MaxDaqCalls == 2

\* the range sweep() checks against, in V
SweepRange == 10

\* Python objects on the heap: lists of numbers, and dicts from channel names
\* to references (positions in the heap).
List(v) == [t |-> "list", v |-> v, m |-> <<>>]
DictObj(m) == [t |-> "dict", v |-> <<>>, m |-> m]

\* a "copy" that hands back the same object
CopyAlias(h, r) == [h |-> h, r |-> r]

\* copy(orig_data): a new object with the same (shared) contents
Copy(h, r) == [h |-> Append(h, h[r]), r |-> Len(h) + 1]

\* len(data)
PyLen(obj) == IF obj.t = "list" THEN Len(obj.v) ELSE Cardinality(DOMAIN obj.m)

\* np.linspace(start, end, n), exact for the inputs used here
Linspace(start, end, n) ==
    [i \in 1..n |-> start + ((i - 1) * (end - start)) \div (n - 1)]

\* The loop of send_receive over chan_out: initialise the output, pad a new
\* list with a duplicate of its last value, store it in data and write_data.
RECURSIVE PadOutputs(_, _)
PadOutputs(st, chans) ==
    IF Len(chans) = 0 \/ st.err # None THEN st
    ELSE LET ch == Head(chans)
             data == st.h[st.dataRef]
         IN  IF ch \notin DOMAIN data.m
             THEN [st EXCEPT !.err = "KeyError"]
             ELSE LET d == st.h[data.m[ch]].v
                  IN  IF Len(d) = 0
                      THEN [st EXCEPT !.err = "IndexError"]
                      ELSE LET h1 == Append(st.h, List(d))
                               h2 == Append(h1, List(d \o <<d[Len(d)]>>))
                               h3 == [h2 EXCEPT ![st.dataRef].m =
                                         (ch :> Len(h2)) @@ data.m]
                           IN  PadOutputs(
                                 [st EXCEPT !.h = h3,
                                            !.writes = Append(@, [ch |-> ch, v |-> d[1]]),
                                            !.wd = (ch :> d \o <<d[Len(d)]>>) @@ @],
                                 Tail(chans))

SeqMin(s) == CHOOSE x \in {s[i] : i \in 1..Len(s)} : \A i \in 1..Len(s) : x <= s[i]

\* Channel names are sequences of characters, 'ai23' being Str("a","i","2","3").
DigitValue ==
    ("0" :> 0) @@ ("1" :> 1) @@ ("2" :> 2) @@ ("3" :> 3) @@ ("4" :> 4) @@
    ("5" :> 5) @@ ("6" :> 6) @@ ("7" :> 7) @@ ("8" :> 8) @@ ("9" :> 9)

\* x.isdigit()
IsDigit(c) == c \in DOMAIN DigitValue

\* ''.join(x for x in y if x.isdigit())
DigitsOf(y) == SelectSeq(y, IsDigit)

\* int(s) for a string of decimal digits
RECURSIVE ParseInt(_)
ParseInt(s) ==
    IF Len(s) = 0 THEN 0
    ELSE 10 * ParseInt(SubSeq(s, 1, Len(s) - 1)) + DigitValue[s[Len(s)]]

\* '%i' % n for n >= 0
RECURSIVE FormatInt(_)
FormatInt(n) ==
    LET d == CHOOSE c \in DOMAIN DigitValue : DigitValue[c] = n % 10
    IN  IF n < 10 THEN <<d>> ELSE Append(FormatInt(n \div 10), d)

\* ch_nums
ChNums(inputs) == [i \in 1..Len(inputs) |-> ParseInt(DigitsOf(inputs[i]))]

\* min_chan = 'ai%i' % min(ch_nums)
MinChan(inputs) == <<"a", "i">> \o FormatInt(SeqMin(ChNums(inputs)))

\* the samples task.run returns for one channel, numbered 1..n
Received(n) == [i \in 1..n |-> i]

\* a data_in where the first-listed input drops its first sample
DataInFirstListed(inputs, n) ==
    [ch \in {inputs[i] : i \in 1..Len(inputs)} |->
        IF ch = inputs[1] THEN SubSeq(Received(n), 2, n)
        ELSE SubSeq(Received(n), 1, n - 1)]

\* data_in: the lowest-numbered input drops its first sample, the others
\* their last
DataIn(inputs, n) ==
    [ch \in {inputs[i] : i \in 1..Len(inputs)} |->
        IF ch = MinChan(inputs) THEN SubSeq(Received(n), 2, n)
        ELSE SubSeq(Received(n), 1, n - 1)]

NoOutcome == [err |-> None, h |-> <<>>, dataRef |-> 0, writes |-> <<>>, wd |-> <<>>,
              ntasks |-> 0, nsamples |-> 0, dataIn |-> <<>>, time |-> <<>>]

\* send_receive(chan_out, orig_data): scalar is TRUE when chan_out is one
\* channel name, and chans is then the list holding it.
SendReceiveOutcome(h0, chans, scalar, orig, inputs) ==
    LET c == Copy(h0, orig)
        h1 == IF scalar THEN Append(c.h, DictObj(chans[1] :> c.r)) ELSE c.h
        dref == IF scalar THEN Len(h1) ELSE c.r
    IN  IF Len(chans) # PyLen(h1[dref])
        THEN [NoOutcome EXCEPT !.err = "Must have data for each output channel!",
                               !.h = h1, !.dataRef = dref]
        ELSE LET st == PadOutputs([NoOutcome EXCEPT !.h = h1, !.dataRef = dref], chans)
             IN  IF st.err # None THEN st
                 ELSE LET n == Len(st.h[st.h[dref].m[chans[1]]].v)
                      IN  [st EXCEPT !.ntasks = 1,
                                     !.nsamples = n,
                                     !.dataIn = DataIn(inputs, n),
                                     !.time = SubSeq(Received(n), 1, n - 1)]

Chans == {"ao0", "ao1"}
AiChans == {<<"a", "i", "3">>, <<"a", "i", "2", "3">>, <<"a", "i", "3", "0">>}
\* sequences given to send_receive for one channel
Samples == {<<1>>, <<1, 2>>, <<3, 4, 5>>}
\* voltages given to sweep as Vstart / Vend
Volts == {-12, 0, 10, 12}
\* numsteps given to sweep
StepCounts == {2, 3}

\* The NIDAQ object after construction.
DaqIdle ==
    /\ inputs_to_monitor = << <<"a", "i", "2", "3">> >>
    /\ heap = <<>>
    /\ heap0 = <<>>
    /\ origRef = 0
    /\ dataRef = 0
    /\ aoWrites = <<>>
    /\ ntasks = 0
    /\ nsamples = 0
    /\ dataIn = <<>>
    /\ timeOut = <<>>
    /\ dcur = [op |-> None, chans |-> <<>>]
    /\ dlast = "none"
    /\ sweepV = <<>>
    /\ dcalls = 0

\* add_input(inp)
AddInput ==
    /\ dcalls < MaxDaqCalls
    /\ \E inp \in AiChans :
        inputs_to_monitor' =
            IF \E i \in 1..Len(inputs_to_monitor) : inputs_to_monitor[i] = inp
            THEN inputs_to_monitor
            ELSE Append(inputs_to_monitor, inp)
    /\ dcalls' = dcalls + 1
    /\ UNCHANGED <<heap, heap0, origRef, dataRef, aoWrites, ntasks, nsamples, dataIn,
                   timeOut, dcur, dlast, sweepV>>
    /\ UNCHANGED <<tuneVars, dataVars, lockinVars, ziVars>>

\* what a call of send_receive leaves behind
Returned(out, h0, orig) ==
    /\ heap' = out.h
    /\ heap0' = h0
    /\ origRef' = orig
    /\ dataRef' = out.dataRef
    /\ aoWrites' = out.writes
    /\ ntasks' = out.ntasks
    /\ nsamples' = out.nsamples
    /\ dataIn' = out.dataIn
    /\ timeOut' = out.time
    /\ dlast' = IF out.err = None THEN "ok" ELSE out.err

\* send_receive(chan_out, orig_data) with one channel name and a sequence
SendReceiveScalar ==
    /\ dcalls < MaxDaqCalls
    /\ \E ch \in Chans, d \in Samples :
        LET h0 == <<List(d)>>
        IN  /\ Returned(SendReceiveOutcome(h0, <<ch>>, TRUE, 1, inputs_to_monitor), h0, 1)
            /\ dcur' = [op |-> "send_receive", chans |-> <<ch>>,
                        inputs |-> inputs_to_monitor]
    /\ sweepV' = <<>>
    /\ dcalls' = dcalls + 1
    /\ UNCHANGED inputs_to_monitor
    /\ UNCHANGED <<tuneVars, dataVars, lockinVars, ziVars>>

\* send_receive(chan_out, orig_data) with a list of channels and a dict
SendReceiveList ==
    /\ dcalls < MaxDaqCalls
    /\ \E chans \in {<<"ao0">>, <<"ao0", "ao1">>, <<"ao1", "ao0">>},
          keys \in {{"ao0"}, {"ao0", "ao1"}}, d0 \in Samples, d1 \in Samples :
        LET m == [k \in keys |-> IF k = "ao0" THEN 1 ELSE 2]
            h0 == <<List(d0), List(d1), DictObj(m)>>
        IN  /\ Len(d0) = Len(d1)
            /\ Returned(SendReceiveOutcome(h0, chans, FALSE, 3, inputs_to_monitor), h0, 3)
            /\ dcur' = [op |-> "send_receive", chans |-> chans,
                        inputs |-> inputs_to_monitor]
    /\ sweepV' = <<>>
    /\ dcalls' = dcalls + 1
    /\ UNCHANGED inputs_to_monitor
    /\ UNCHANGED <<tuneVars, dataVars, lockinVars, ziVars>>

\* a range check that looks at Vend only
OutOfRangeEnd(vstart, vend) == Abs(vend) > SweepRange

\* max(abs(Vstart[k]), abs(Vend[k])) > 10
OutOfRange(vstart, vend) ==
    (IF Abs(vstart) >= Abs(vend) THEN Abs(vstart) ELSE Abs(vend)) > SweepRange

\* the points of each half of an acceleration ramp
numaccel == 250

\* what 1 V is in the lists of a sweep with accel
AccelScale == 2 * (numaccel - 1) * (numaccel - 1)

\* the unit of the lists of a sweep
Unit(accel) == IF accel THEN AccelScale ELSE 1

\* accel_function(start, end, numpts), start and end being multiples of
\* AccelScale and numpts being numaccel:
\*   part1[i] = start + (i/(numpts-1))^2 * (end-start)/2
\*   part2[j] = end - (1 - j/(numpts-1))^2 * (end-start)/2
AccelFunction(start, end, numpts) ==
    IF start = end THEN [i \in 1..(numpts * 2) |-> start]
    ELSE LET half == (end - start) \div AccelScale
             part1 == [i \in 1..numpts |-> start + (i - 1) * (i - 1) * half]
             part2 == [j \in 1..numpts |-> end - (numpts - j) * (numpts - j) * half]
         IN  part1 \o Tail(part2)

\* V[k][:0] = accel_function(0, V[k][0], numaccel);
\* V[k] = V[k] + accel_function(V[k][-1], 0, numaccel)
Accelerate(Vk) ==
    AccelFunction(0, Vk[1], numaccel) \o Vk \o AccelFunction(Vk[Len(Vk)], 0, numaccel)

\* V[k][2*numaccel-1:-2*numaccel+1]
Trim(Vk) == SubSeq(Vk, 2 * numaccel, Len(Vk) - (2 * numaccel - 1))

\* The loop of sweep over Vstart.keys() (here in the order of keys): V[k] is
\* built, then the range is checked, then the ramps are added; the first
\* channel out of range raises.
RECURSIVE BuildV(_, _, _, _, _, _)
BuildV(keys, vstart, vend, n, accel, V) ==
    IF Len(keys) = 0 THEN [err |-> None, V |-> V]
    ELSE LET k == Head(keys)
             lin == Linspace(Unit(accel) * vstart[k], Unit(accel) * vend[k], n)
         IN  IF OutOfRange(vstart[k], vend[k])
             THEN [err |-> "NIDAQ out of range!", V |-> (k :> lin) @@ V]
             ELSE BuildV(Tail(keys), vstart, vend, n, accel,
                         (k :> IF accel THEN Accelerate(lin) ELSE lin) @@ V)

\* sweep(chan_out, Vstart, Vend, numsteps=n, accel); Vstart and Vend are
\* dicts over the channels of chans (scalars are wrapped first).  Only after
\* the loop is send_receive called, with the dict V as its data.  With accel
\* every V[k] is then trimmed, and response, the dict send_receive returned,
\* is indexed with a slice, which raises.
SweepOutcome(chans, vstart, vend, n, accel, inputs) ==
    LET b == BuildV(chans, vstart, vend, n, accel, <<>>)
    IN  IF b.err # None
        THEN [out |-> [NoOutcome EXCEPT !.err = b.err], h0 |-> <<>>, orig |-> 0,
              V |-> b.V]
        ELSE LET h0 == [i \in 1..(Len(chans) + 1) |->
                          IF i <= Len(chans)
                          THEN List(b.V[chans[i]])
                          ELSE DictObj([k \in DOMAIN b.V |->
                                          CHOOSE j \in 1..Len(chans) : chans[j] = k])]
                 sr == SendReceiveOutcome(h0, chans, FALSE, Len(chans) + 1, inputs)
             IN  IF sr.err # None \/ ~accel
                 THEN [out |-> sr, h0 |-> h0, orig |-> Len(chans) + 1, V |-> b.V]
                 ELSE [out |-> [sr EXCEPT !.err = "TypeError: unhashable type: 'slice'"],
                       h0 |-> h0, orig |-> Len(chans) + 1,
                       V |-> [k \in DOMAIN b.V |-> Trim(b.V[k])]]

\* sweep(chan_out, Vstart, Vend, numsteps)
Sweep ==
    /\ dcalls < MaxDaqCalls
    /\ \E chans \in {<<"ao0">>, <<"ao0", "ao1">>}, n \in StepCounts :
       \E vstart \in [{chans[i] : i \in 1..Len(chans)} -> Volts],
          vend \in [{chans[i] : i \in 1..Len(chans)} -> Volts] :
        LET sw == SweepOutcome(chans, vstart, vend, n, FALSE, inputs_to_monitor)
        IN  /\ Returned(sw.out, sw.h0, sw.orig)
            /\ sweepV' = sw.V
            /\ dcur' = [op |-> "sweep", chans |-> chans, Vstart |-> vstart, Vend |-> vend,
                        n |-> n, accel |-> FALSE, inputs |-> inputs_to_monitor]
    /\ dcalls' = dcalls + 1
    /\ UNCHANGED inputs_to_monitor
    /\ UNCHANGED <<tuneVars, dataVars, lockinVars, ziVars>>

\* sweep(chan_out, Vstart, Vend, numsteps, accel=True) of one channel
SweepAccel ==
    /\ dcalls < MaxDaqCalls
    /\ \E ch \in {"ao0"}, n \in StepCounts, v0 \in Volts, v1 \in Volts :
        LET sw == SweepOutcome(<<ch>>, ch :> v0, ch :> v1, n, TRUE, inputs_to_monitor)
        IN  /\ Returned(sw.out, sw.h0, sw.orig)
            /\ sweepV' = sw.V
            /\ dcur' = [op |-> "sweep", chans |-> <<ch>>, Vstart |-> ch :> v0,
                        Vend |-> ch :> v1, n |-> n, accel |-> TRUE,
                        inputs |-> inputs_to_monitor]
    /\ dcalls' = dcalls + 1
    /\ UNCHANGED inputs_to_monitor
    /\ UNCHANGED <<tuneVars, dataVars, lockinVars, ziVars>>

NextDaq == AddInput \/ SendReceiveScalar \/ SendReceiveList \/ Sweep \/ SweepAccel

(***************************************************************************)
(* SR830                                                                   *)
(***************************************************************************)

\* assignments to SR830 attributes one behaviour makes
MaxLockinCalls == 2

\* Fixed-point numbers: [w, f] is w + f / FracBase with 0 <= f < FracBase.
FracBase == 1000 * 1000 * 1000
Fx(w, f) == [w |-> w, f |-> f]
Nano(n) == Fx(0, n)
Micro(n) == Fx(0, 1000 * n)
Milli(n) == Fx(0, 1000 * 1000 * n)
Whole(n) == Fx(n, 0)

\* a - b
FxSub(a, b) ==
    IF a.f - b.f < 0 THEN Fx(a.w - b.w - 1, a.f - b.f + FracBase)
    ELSE Fx(a.w - b.w, a.f - b.f)

\* a >= 0
FxGe0(a) == a.w >= 0

\* abs(a)
FxAbs(a) ==
    IF a.w >= 0 THEN a
    ELSE IF a.f = 0 THEN Fx(-a.w, 0) ELSE Fx(-a.w - 1, FracBase - a.f)

\* a <= b, a < b
FxLe(a, b) == a.w < b.w \/ (a.w = b.w /\ a.f <= b.f)
FxLt(a, b) == a.w < b.w \/ (a.w = b.w /\ a.f < b.f)

\* the value the list comprehensions put where the difference is negative
Sentinel == -100000

\* _time_constant_values
time_constant_values ==
    << Micro(10), Micro(30), Micro(100), Micro(300), Milli(1), Milli(3), Milli(10),
       Milli(30), Milli(100), Milli(300), Whole(1), Whole(3), Whole(10), Whole(30),
       Whole(100), Whole(300), Whole(1000), Whole(3000), Whole(10000), Whole(30000) >>

\* _sensitivity_options
sensitivity_options ==
    << Nano(2), Nano(5), Nano(10), Nano(20), Nano(50), Nano(100), Nano(200),
       Nano(500), Micro(1), Micro(2), Micro(5), Micro(10), Micro(20), Micro(50), Micro(100),
       Micro(200), Micro(500), Milli(1), Milli(2), Milli(5), Milli(10), Milli(20),
       Milli(50), Milli(100), Milli(200), Milli(500), Whole(1) >>

\* The keys of time_constant_options: '<n> <u>' is the record [n, u].
Name(n, u) == [n |-> n, u |-> u]

\* self.time_constant_options
time_constant_options ==
    (Name(10, "us") :> 0) @@ (Name(30, "us") :> 1) @@ (Name(100, "us") :> 2) @@
    (Name(300, "us") :> 3) @@ (Name(1, "ms") :> 4) @@ (Name(3, "ms") :> 5) @@
    (Name(10, "ms") :> 6) @@ (Name(30, "ms") :> 7) @@ (Name(100, "ms") :> 8) @@
    (Name(300, "ms") :> 9) @@ (Name(1, "s") :> 10) @@ (Name(3, "s") :> 11) @@
    (Name(10, "s") :> 12) @@ (Name(30, "s") :> 13) @@ (Name(100, "s") :> 14) @@
    (Name(300, "s") :> 15) @@ (Name(1, "ks") :> 16) @@ (Name(3, "ks") :> 17) @@
    (Name(10, "ks") :> 18) @@ (Name(30, "ks") :> 19)

\* numpy argmin: the (0-based) position of the first smallest entry
ArgMin(a) ==
    (CHOOSE i \in 1..Len(a) :
        /\ \A j \in 1..Len(a) : FxLe(a[i], a[j])
        /\ \A j \in 1..(i - 1) : ~FxLe(a[j], a[i])) - 1

\* list.index(x): the (0-based) position of the first entry equal to x
ListIndex(l, x) ==
    (CHOOSE i \in 1..Len(l) : l[i] = x /\ \A j \in 1..(i - 1) : l[j] # x) - 1

\* abs(np.array([v - value if (v - value) >= 0 else -100000 for v in options]))
AboveDistances(options, value) ==
    [i \in 1..Len(options) |->
        FxAbs(IF FxGe0(FxSub(options[i], value)) THEN FxSub(options[i], value)
              ELSE Whole(Sentinel))]

\* distances to the values on both sides
NearestDistances(values, value) ==
    [i \in 1..Len(values) |-> FxAbs(FxSub(value, values[i]))]

\* abs(np.array([value - v if (value - v) >= 0 else -100000 for v in values]))
BelowDistances(values, value) ==
    [i \in 1..Len(values) |->
        FxAbs(IF FxGe0(FxSub(value, values[i])) THEN FxSub(value, values[i])
              ELSE Whole(Sentinel))]

\* a clamp that lets every value through
NoClampUp(value) == value

\* if value > 1: value = 1
ClampUp(value) == IF FxLt(Whole(1), value) THEN Whole(1) ELSE value

\* if value < 10e-6: value = 10e-6
ClampDown(value) == IF FxLt(value, Micro(10)) THEN Micro(10) ELSE value

\* The sensitivity setter: the command it writes.
SensitivityCommand(value) ==
    LET index == ArgMin(AboveDistances(sensitivity_options, ClampUp(value)))
        good_value == sensitivity_options[index + 1]
    IN  <<"S", "E", "N", "S">> \o FormatInt(ListIndex(sensitivity_options, good_value))

\* The time_constant setter: the exception it raises, or the command it
\* writes.  A value is tagged with its Python type.
TimeConstantOutcome(value) ==
    IF value.type = "str"
    THEN IF value.v \in DOMAIN time_constant_options
         THEN [err |-> None,
               cmd |-> <<"O", "F", "L", "T", " ">> \o
                       FormatInt(time_constant_options[value.v])]
         ELSE [err |-> "Must choose allowed time constant or input as float in units of seconds!",
               cmd |-> <<>>]
    ELSE IF value.type \in {"float", "int"}
    THEN [err |-> None,
          cmd |-> <<"O", "F", "L", "T", " ">> \o
                  FormatInt(ArgMin(BelowDistances(time_constant_values,
                                                  ClampDown(value.v))))]
    ELSE [err |-> "UnboundLocalError", cmd |-> <<>>]

\* values assigned to sensitivity
SensitivityInputs ==
    {sensitivity_options[i] : i \in 1..Len(sensitivity_options)} \cup
    {Nano(1), Nano(3), Nano(7), Nano(11), Micro(150), Milli(499), Nano(999999999),
     Fx(1, 1), Whole(2), Whole(5), Whole(0), Whole(-1), Fx(-1, 999999998),
     Whole(-99999), Whole(-200000)}

\* numbers assigned to time_constant
TimeConstantNumbers ==
    {time_constant_values[i] : i \in 1..Len(time_constant_values)} \cup
    {Nano(9999), Nano(10001), Nano(29999), Milli(500), Whole(0), Whole(-1),
     Whole(2), Fx(29999, 999999999), Whole(30001), Whole(130001), Whole(200000)}

\* strings assigned to time_constant
TimeConstantNames ==
    DOMAIN time_constant_options \cup
    {Name(20, "us"), Name(1, "us"), Name(1000, "ms"), Name(100, "ks"), Name(3, "sec")}

\* The SR830 object after construction.
LockinIdle ==
    /\ written = <<>>
    /\ lcur = [attr |-> None]
    /\ llast = "none"
    /\ lcalls = 0

\* lockin.sensitivity = value
SetSensitivity ==
    /\ lcalls < MaxLockinCalls
    /\ \E value \in SensitivityInputs :
        /\ written' = <<SensitivityCommand(value)>>
        /\ lcur' = [attr |-> "sensitivity", value |-> [type |-> "float", v |-> value]]
    /\ llast' = "ok"
    /\ lcalls' = lcalls + 1
    /\ UNCHANGED <<tuneVars, dataVars, daqVars, ziVars>>

\* lockin.time_constant = value
SetTimeConstant ==
    /\ lcalls < MaxLockinCalls
    /\ \E value \in {x \in [type : {"float", "int", "numpy.float64"},
                              v : TimeConstantNumbers] : x.type = "int" => x.v.f = 0}
                   \cup [type : {"str"}, v : TimeConstantNames] :
        LET out == TimeConstantOutcome(value)
        IN  /\ written' = IF out.err = None THEN <<out.cmd>> ELSE <<>>
            /\ llast' = IF out.err = None THEN "ok" ELSE out.err
            /\ lcur' = [attr |-> "time_constant", value |-> value]
    /\ lcalls' = lcalls + 1
    /\ UNCHANGED <<tuneVars, dataVars, daqVars, ziVars>>

NextLockin == SetSensitivity \/ SetTimeConstant

(***************************************************************************)
(* HF2LI.aux_sweep                                                         *)
(***************************************************************************)

\* gate voltages in one gatesweep list
MaxGates == 2

\* sweeps one call of aux_sweep executes before the model stops following it
MaxSweeps == 3

\* the I_compliance the ramp-down sets, in nA
SafeCompliance == 1

\* gate voltages, in V
GateVolts == {-1, 2}

\* the gatesweep argument: False, or a list of gate voltages
False == [list |-> FALSE, v |-> <<>>]
PyList(l) == [list |-> TRUE, v |-> l]
GateLists == {PyList(l) : l \in UNION {[1..n -> GateVolts] : n \in 1..MaxGates}}

\* the compliance argument, in nA, and aux_start, in V
Compliances == {1, 5}
AuxStarts == {3}

\* the values of current_gate: a gate voltage, or the string 'nogatesweep'
Gate(v) == [kind |-> "num", v |-> v]
NoGate == [kind |-> "str", v |-> 0]

\* str(current_gate)
PyStr(g) ==
    IF g.kind = "str" THEN <<"n", "o", "g", "a", "t", "e", "s", "w", "e", "e", "p">>
    ELSE IF g.v < 0 THEN <<"-">> \o FormatInt(-g.v) ELSE FormatInt(g.v)

\* bool(gatesweep)
Truthy(gs) == gs.list /\ Len(gs.v) > 0

Unbound == [state |-> "unbound", subscribed |-> FALSE]

\* The state before aux_sweep is called.
ZiIdle ==
    /\ zpc = "idle"
    /\ zargs = [gatesweep |-> False, keithley |-> FALSE, compliance |-> 0, aux_start |-> 0]
    /\ gatesweep = False
    /\ current_gate = NoGate
    /\ zdata = <<>>
    /\ keithley = <<>>
    /\ auxOut = <<>>
    /\ sweeper = Unbound
    /\ pathBound = FALSE
    /\ sweepsRun = <<>>
    /\ zexit = None
    /\ zlast = "none"

\* aux_sweep(aux_start, ..., gatesweep, keithley, compliance) up to the try:
\* data = {}
AuxSweepCall ==
    /\ zpc = "idle"
    /\ \E gs \in GateLists \cup {False}, k \in BOOLEAN, c \in Compliances, a \in AuxStarts :
        /\ zargs' = [gatesweep |-> gs, keithley |-> k, compliance |-> c, aux_start |-> a]
        /\ gatesweep' = gs
    /\ zdata' = <<>>
    /\ zpc' = "top"
    /\ UNCHANGED <<current_gate, keithley, auxOut, sweeper, pathBound, sweepsRun, zexit,
                   zlast>>
    /\ UNCHANGED <<tuneVars, dataVars, daqVars, lockinVars>>

\* The head of the while True body: with a gate value left and a Keithley,
\* set the compliance, pop the gate value and set Vout; else no gate sweep.
LoopTop ==
    /\ zpc = "top"
    /\ IF Truthy(gatesweep) /\ zargs.keithley
       THEN /\ current_gate' = Gate(Head(gatesweep.v))
            /\ gatesweep' = PyList(Tail(gatesweep.v))
            /\ keithley' = keithley \o
                    << [attr |-> "I_compliance", v |-> zargs.compliance],
                       [attr |-> "Vout", v |-> Head(gatesweep.v)] >>
            /\ zpc' = "gatewait"
       ELSE /\ current_gate' = NoGate
            /\ zpc' = "start"
            /\ UNCHANGED <<gatesweep, keithley>>
    /\ UNCHANGED <<zargs, zdata, auxOut, sweeper, pathBound, sweepsRun, zexit, zlast>>
    /\ UNCHANGED <<tuneVars, dataVars, daqVars, lockinVars>>

\* while abs(keithley.I) > .9*compliance ends: the current dropped
GateReached ==
    /\ zpc = "gatewait"
    /\ zpc' = "start"
    /\ UNCHANGED <<zargs, gatesweep, current_gate, zdata, keithley, auxOut, sweeper,
                   pathBound, sweepsRun, zexit, zlast>>
    /\ UNCHANGED <<tuneVars, dataVars, daqVars, lockinVars>>

\* the current stayed high for 240 s: raise gateVoltageError, which the
\* except clause passes
GateTimeout ==
    /\ zpc = "gatewait"
    /\ zexit' = "gateVoltageError"
    /\ zpc' = "tail"
    /\ UNCHANGED <<zargs, gatesweep, current_gate, zdata, keithley, auxOut, sweeper,
                   pathBound, sweepsRun, zlast>>
    /\ UNCHANGED <<tuneVars, dataVars, daqVars, lockinVars>>

\* self.aux_sweepND(auxchan, aux_start); sweeper = self.daq.sweep() and its
\* settings
CreateSweeper ==
    /\ zpc = "start"
    /\ Len(sweepsRun) < MaxSweeps
    /\ auxOut' = Append(auxOut, zargs.aux_start)
    /\ sweeper' = [state |-> "created", subscribed |-> FALSE]
    /\ zpc' = "configure"
    /\ UNCHANGED <<zargs, gatesweep, current_gate, zdata, keithley, pathBound, sweepsRun,
                   zexit, zlast>>
    /\ UNCHANGED <<tuneVars, dataVars, daqVars, lockinVars>>

\* path = ...; sweeper.subscribe(path); sweeper.execute()
ExecuteSweeper ==
    /\ zpc = "configure"
    /\ pathBound' = TRUE
    /\ sweeper' = [state |-> "running", subscribed |-> TRUE]
    /\ sweepsRun' = Append(sweepsRun, current_gate)
    /\ zpc' = "sweepwait"
    /\ UNCHANGED <<zargs, gatesweep, current_gate, zdata, keithley, auxOut, zexit, zlast>>
    /\ UNCHANGED <<tuneVars, dataVars, daqVars, lockinVars>>

\* while not sweeper.finished() ends (by itself, or after the timeout's
\* sweeper.finish()): data[str(current_gate)] = sweeper.read(True);
\* unsubscribe; clear; break when gatesweep is empty or False.
SweepFinished ==
    /\ zpc = "sweepwait"
    /\ zdata' = (PyStr(current_gate) :> [gate |-> current_gate, run |-> Len(sweepsRun)])
                 @@ zdata
    /\ sweeper' = [state |-> "cleared", subscribed |-> FALSE]
    /\ IF Truthy(gatesweep)
       THEN zpc' = "top" /\ UNCHANGED zexit
       ELSE zpc' = "tail" /\ zexit' = "completed"
    /\ UNCHANGED <<zargs, gatesweep, current_gate, keithley, auxOut, pathBound, sweepsRun,
                   zlast>>
    /\ UNCHANGED <<tuneVars, dataVars, daqVars, lockinVars>>

\* In the wait loop with a Keithley and a gate value: the gate voltage read
\* back is more than .1 off: sweeper.finish(); sweeper.clear(); raise
\* gateVoltageError.
GateDrift ==
    /\ zpc = "sweepwait"
    /\ zargs.keithley
    /\ current_gate.kind = "num"
    /\ sweeper' = [state |-> "cleared", subscribed |-> sweeper.subscribed]
    /\ zexit' = "gateVoltageError"
    /\ zpc' = "tail"
    /\ UNCHANGED <<zargs, gatesweep, current_gate, zdata, keithley, auxOut, pathBound,
                   sweepsRun, zlast>>
    /\ UNCHANGED <<tuneVars, dataVars, daqVars, lockinVars>>

\* In the wait loop with a Keithley and current_gate = 'nogatesweep':
\* keithley.Vout - current_gate raises TypeError, which no clause catches.
WaitTypeError ==
    /\ zpc = "sweepwait"
    /\ zargs.keithley
    /\ current_gate.kind = "str"
    /\ zexit' = "TypeError"
    /\ zlast' = "TypeError"
    /\ zpc' = "done"
    /\ UNCHANGED <<zargs, gatesweep, current_gate, zdata, keithley, auxOut, sweeper,
                   pathBound, sweepsRun>>
    /\ UNCHANGED <<tuneVars, dataVars, daqVars, lockinVars>>

\* try: sweeper.finish(); sweeper.unsubscribe(path); sweeper.clear()
\* except: pass          -- an unbound sweeper or path raises NameError
InterruptHandler(sw, bound) ==
    IF sw.state = "unbound" THEN sw
    ELSE IF ~bound THEN [sw EXCEPT !.state = "finished"]
    ELSE [state |-> "cleared", subscribed |-> FALSE]

\* KeyboardInterrupt inside the try
Interrupt ==
    /\ zpc \in {"top", "gatewait", "start", "configure", "sweepwait"}
    /\ sweeper' = InterruptHandler(sweeper, pathBound)
    /\ zexit' = "KeyboardInterrupt"
    /\ zpc' = "tail"
    /\ UNCHANGED <<zargs, gatesweep, current_gate, zdata, keithley, auxOut, pathBound,
                   sweepsRun, zlast>>
    /\ UNCHANGED <<tuneVars, dataVars, daqVars, lockinVars>>

\* keithley.I_compliance = 1e-9; keithley.Vout = 0
RampDown == << [attr |-> "I_compliance", v |-> SafeCompliance], [attr |-> "Vout", v |-> 0] >>

\* What follows the try.  'for i in data.keys(): samples[i] = data[i][path]'
\* raises NameError when data has a key, samples being bound nowhere; with
\* no key the Keithley and the aux output are ramped down, and 'if samples:'
\* raises NameError.
RampDownAndReturn ==
    /\ zpc = "tail"
    /\ IF DOMAIN zdata # {}
       THEN UNCHANGED <<keithley, auxOut>>
       ELSE /\ keithley' = IF zargs.keithley THEN keithley \o RampDown ELSE keithley
            /\ auxOut' = Append(auxOut, 0)
    /\ zlast' = "NameError"
    /\ zpc' = "done"
    /\ UNCHANGED <<zargs, gatesweep, current_gate, zdata, sweeper, pathBound, sweepsRun,
                   zexit>>
    /\ UNCHANGED <<tuneVars, dataVars, daqVars, lockinVars>>

NextZi ==
    \/ AuxSweepCall \/ LoopTop \/ GateReached \/ GateTimeout \/ CreateSweeper
    \/ ExecuteSweeper \/ SweepFinished \/ GateDrift \/ WaitTypeError \/ Interrupt
    \/ RampDownAndReturn

(***************************************************************************)
(* Specifications                                                          *)
(***************************************************************************)

InitTuneSpec == InitTune /\ DataIdle /\ DaqIdle /\ LockinIdle /\ ZiIdle

SpecTune == InitTuneSpec /\ [][NextTune]_vars

\* Each instrument call returns, so an invocation that can run does run.
FairSpecTune == SpecTune /\ WF_vars(NextTune)

\* The ArrayTune object before run() is called.
TuneIdle ==
    /\ tpc = "idle"
    /\ attempts = DefaultAttempts
    /\ tunePasses = 0
    /\ lockPasses = 0
    /\ squid = [A_flux |-> 0, S_flux |-> 0]
    /\ calls = <<>>
    /\ adj = NoAdj
    /\ nops = 0
    /\ result = None

InitDataSpec == DataIdle /\ TuneIdle /\ DaqIdle /\ LockinIdle /\ ZiIdle

SpecData == InitDataSpec /\ [][NextData]_vars

InitDaqSpec == DaqIdle /\ TuneIdle /\ DataIdle /\ LockinIdle /\ ZiIdle

SpecDaq == InitDaqSpec /\ [][NextDaq]_vars

InitLockinSpec == LockinIdle /\ TuneIdle /\ DataIdle /\ DaqIdle /\ ZiIdle

SpecLockin == InitLockinSpec /\ [][NextLockin]_vars

InitZiSpec == ZiIdle /\ TuneIdle /\ DataIdle /\ DaqIdle /\ LockinIdle

SpecZi == InitZiSpec /\ [][NextZi]_vars

(***************************************************************************)
(* Properties of ArrayTune                                                 *)
(***************************************************************************)

\* C1 (as stated): a tune_squid() chain and a lock_squid() chain started with
\* attempts=5 each make at most 5 passes.
C1_AtMostFivePasses ==
    /\ tunePasses <= DefaultAttempts
    /\ lockPasses <= DefaultAttempts

\* C1 (amended): a chain started with attempts=5 makes at most 6 passes, the
\* first one and at most 5 retries: the pass run with attempts = a is pass
\* number 5 - a + 1 of its chain, and a chain ends at the latest in the pass
\* run with attempts = 0.
C1_AtMostSixPasses ==
    /\ tunePasses <= DefaultAttempts + 1
    /\ lockPasses <= DefaultAttempts + 1
    /\ attempts \in 0..DefaultAttempts
    /\ tpc = "tune" => tunePasses = DefaultAttempts - attempts
    /\ tpc = "lock" => lockPasses = DefaultAttempts - attempts

\* Both chains used all their passes.
C1_Witness ==
    /\ tpc = "done"
    /\ tunePasses = DefaultAttempts + 1
    /\ lockPasses = DefaultAttempts + 1

\* the instrument operations of one pass that adjusts
TunePassOps == Len(SetupOps) + Len(AcquireOps) + 2
LockPassOps == Len(LockOps) + 2
OpsBound == (DefaultAttempts + 1) * (TunePassOps + LockPassOps)

\* C2: tune_squid() terminates for every sequence of measured errors,
\* returning True or False, after a bounded number of instrument operations.
C2_Terminates ==
    /\ <>(tpc = "done" /\ result \in BOOLEAN)
    /\ [](nops <= OpsBound)

\* tune_squid() gave up on the array flux and returned False.
C2_Witness ==
    /\ tpc = "done"
    /\ result = FALSE
    /\ lockPasses = 0
    /\ nops > 0

Resets(ops) == {i \in 1..Len(ops) : ops[i].op = "reset"}
Writes(ops, attr) == {i \in 1..Len(ops) : ops[i].op = "set" /\ ops[i].attr = attr}

AdjInRange ==
    /\ adj.attr # None
    /\ FluxLow <= adj.value + conversion * adj.error
    /\ adj.value + conversion * adj.error <= FluxHigh

\* C3: when 0 <= value + conversion*error <= 150, adjust(attr, error) sets the
\* attribute to exactly value + conversion*error, writes it once, and calls
\* reset() exactly once after that write.
C3_LinearCorrection ==
    AdjInRange =>
        /\ squid[adj.attr] = adj.value + conversion * adj.error
        /\ \E w \in Writes(calls, adj.attr) :
              /\ Writes(calls, adj.attr) = {w}
              /\ calls[w].v = adj.value + conversion * adj.error
              /\ Cardinality({r \in Resets(calls) : r > w}) = 1

\* adjust() made a direct correction of S_flux by a non-zero error.
C3_Witness ==
    /\ AdjInRange
    /\ adj.attr = "S_flux"
    /\ adj.error = squid_tol
    /\ squid.S_flux > 0

(***************************************************************************)
(* Properties of Dataset                                                   *)
(***************************************************************************)

TheFile == OpenA(files, FileName)

\* C4: append without a slice never overwrites.  An invocation of _writetoh5
\* leaves every existing dataset (of every file) as it is; when something
\* exists at its path it changes nothing and prompts for a new path; when the
\* path is unused (and does not run through a dataset) it creates exactly
\* that dataset, holding the data.
C4_NeverOverwrites ==
    [][dpc = "write" =>
        LET h == TheFile
            p == H5Norm(work[1].path)
            h2 == files'[FileName]
        IN  /\ \A fn \in DOMAIN files \ {FileName} :
                  fn \in DOMAIN files' /\ files'[fn] = files[fn]
            /\ \A q \in DOMAIN h : q \in DOMAIN h2 /\ h2[q] = h[q]
            /\ H5Has(h, p) =>
                  /\ h2 = h
                  /\ created' = created
                  /\ dpc' = "write"
                  /\ work'[1].prompted
                  /\ work'[1].data = work[1].data
            /\ (~H5Has(h, p) /\ ~Blocked(h, p)) =>
                  /\ DOMAIN h2 = DOMAIN h \cup {p}
                  /\ h2[p] = work[1].data
                  /\ Len(created') = Len(created) + 1
      ]_vars

\* A plain append found its path used, prompted, and created the data at the
\* path typed in, next to the dataset that was there.
C4_Witness ==
    /\ cur.op = "append"
    /\ last = "ok"
    /\ Len(created) = 1
    /\ created[1].prompted
    /\ IsDataset(TheFile, H5Norm(cur.path))
    /\ created[1].at # H5Norm(cur.path)
    /\ TheFile[created[1].at] = created[1].data

AreqConflict ==
    /\ dpc = "appenddata"
    /\ areq.file \in DOMAIN files
    /\ IsDataset(files[areq.file], H5Norm(areq.path))
    /\ Len(areq.arr) = Len(SliceOf(files[areq.file][H5Norm(areq.path)], areq.slice))
    /\ ~AllNaN(SliceOf(files[areq.file][H5Norm(areq.path)], areq.slice))

\* C5: _appenddatah5 can only overwrite NaNs: when the addressed slice holds
\* a non-NaN value and the answer is not 'OVERWRITE', the array in the
\* original file is left unchanged and the new data is saved in an array of
\* another file.
C5_OnlyOverwritesNaN ==
    [][(AreqConflict /\ answer' # "OVERWRITE") =>
        LET fn == areq.file
            p == H5Norm(areq.path)
        IN  /\ files'[fn][p] = files[fn][p]
            /\ \E fo \in DOMAIN files' \ {fn} :
                  /\ IsDataset(files'[fo], p)
                  /\ SliceOf(files'[fo][p], areq.slice) = areq.arr
      ]_vars

\* the datasets a nested dict returned by get() holds, by key list
RECURSIVE DictLeaves(_)
DictLeaves(d) ==
    UNION { IF d[k].t = "leaf" THEN {<<k>>}
            ELSE {<<k>> \o r : r \in DictLeaves(d[k].kids)} : k \in DOMAIN d }

\* C6: get(path) of a group returns exactly the datasets located under path,
\* nested by their key sequence (relative to path, or from the root).
C6_GetReturnsSubgroup ==
    (cur.op = "get" /\ last = "ok" /\ got.kind = "dict") =>
        LET p == H5Norm(cur.path)
            under == Below(TheFile, p)
        IN  \/ DictLeaves(got.d) = under
            \/ DictLeaves(got.d) = {SubSeq(q, Len(p) + 1, Len(q)) : q \in under}

\* the nodes of a nested dict, by key list from the root
RECURSIVE KeyLists(_)
KeyLists(d) ==
    UNION { {<<d.items[i].k>>} \cup
            (IF IsDict(d.items[i].v)
             THEN {<<d.items[i].k>> \o r : r \in KeyLists(d.items[i].v)}
             ELSE {}) : i \in 1..Len(d.items) }

\* the object of a nested dict at a key list
RECURSIVE ObjAt(_, _)
ObjAt(d, kl) ==
    LET i == CHOOSE j \in 1..Len(d.items) : d.items[j].k = kl[1]
    IN  IF Len(kl) = 1 THEN d.items[i].v ELSE ObjAt(d.items[i].v, Tail(kl))

LeafKeyLists(d) == {kl \in KeyLists(d) : ~IsDict(ObjAt(d, kl))}

\* 'k1/.../kn'
RECURSIVE Slashed(_)
Slashed(kl) ==
    IF Len(kl) = 1 THEN kl[1]
    ELSE Slashed(SubSeq(kl, 1, Len(kl) - 1)) \o <<"/">> \o kl[Len(kl)]

\* C7: append(pathtowrite, d) with a nested dict d that completes has visited
\* every node of d exactly once, parent before children, and has created
\* exactly one dataset per non-dict leaf and none for a dict node; the leaf
\* [k1,...,kn] was aimed at pathtowrite followed by 'k1/.../kn' and, unless
\* that path was in use, is stored there (existing groups on the way do not
\* matter).
C7_DictAppend ==
    (cur.op = "appenddict" /\ dpc = "idle" /\ last = "ok") =>
        LET d == cur.data
        IN  /\ Len(visited) = Cardinality(KeyLists(d))
            /\ {visited[i] : i \in 1..Len(visited)} = KeyLists(d)
            /\ \A i, j \in 1..Len(visited) :
                  IsProperPrefix(visited[i], visited[j]) => i < j
            /\ Len(created) = Cardinality(LeafKeyLists(d))
            /\ {created[i].target : i \in 1..Len(created)} =
                  {cur.path \o Slashed(kl) : kl \in LeafKeyLists(d)}
            /\ \A i \in 1..Len(created) :
                  /\ \E kl \in LeafKeyLists(d) :
                        /\ created[i].target = cur.path \o Slashed(kl)
                        /\ created[i].data = ObjAt(d, kl).v
                  /\ IsDataset(TheFile, created[i].at)
                  /\ TheFile[created[i].at] = created[i].data
                  /\ ~created[i].prompted => created[i].at = H5Norm(created[i].target)

\* A dict with two leaves below one key was written under an existing group:
\* both leaves went to their own paths without a prompt.
C7_Witness ==
    /\ cur.op = "appenddict"
    /\ dpc = "idle"
    /\ last = "ok"
    /\ Len(created) = 2
    /\ ~created[1].prompted
    /\ ~created[2].prompted
    /\ Len(created[2].at) = 3
    /\ Cardinality(DOMAIN TheFile) > 2

\* C8: when the shape of the new array differs from the shape of the
\* addressed slice of the dataset, _appenddatah5 raises 'Slice and data are
\* not the same shape', changes no file and leaves no file open.
C8_ShapeMismatchRaises ==
    [][(/\ dpc = "appenddata"
        /\ areq.file \in DOMAIN files
        /\ IsDataset(files[areq.file], H5Norm(areq.path))
        /\ Len(areq.arr) #
             Cardinality(SliceIdx(Len(files[areq.file][H5Norm(areq.path)]), areq.slice)))
       => /\ last' = "raise:shape"
          /\ dpc' = "idle"
          /\ files' = files
          /\ leaked' = leaked
      ]_vars

\* An append with a slice ended with the shape exception, nothing left open.
C8_Witness ==
    /\ cur.op = "appendslice"
    /\ last = "raise:shape"
    /\ dpc = "idle"
    /\ leaked = {}

(***************************************************************************)
(* Properties of NIDAQ                                                     *)
(***************************************************************************)

\* C9: sweep raises 'NIDAQ out of range!' whenever some output channel has
\* |Vstart| > 10 or |Vend| > 10, and then no task has run and no voltage has
\* been written to any output channel.
C9_OutOfRangeRaises ==
    (/\ dcur.op = "sweep"
     /\ \E k \in DOMAIN dcur.Vstart :
           Abs(dcur.Vstart[k]) > SweepRange \/ Abs(dcur.Vend[k]) > SweepRange)
    => /\ dlast = "NIDAQ out of range!"
       /\ ntasks = 0
       /\ aoWrites = <<>>

\* A sweep of two channels raised for the second one, the first being in
\* range.
C9_Witness ==
    /\ dcur.op = "sweep"
    /\ dlast = "NIDAQ out of range!"
    /\ dcur.chans = <<"ao0", "ao1">>
    /\ Abs(dcur.Vstart["ao0"]) <= SweepRange
    /\ Abs(dcur.Vend["ao0"]) <= SweepRange
    /\ Abs(dcur.Vstart["ao1"]) > SweepRange
    /\ ntasks = 0

\* C10: send_receive does not modify the caller's data: after the call every
\* object the caller held (orig_data and each per-channel sequence) is as it
\* was, and when the call succeeds the sequence padded with a duplicate of
\* its last sample is in the internal copy only.
C10_CallerDataUnchanged ==
    (dcur.op \in {"send_receive", "sweep"} /\ Len(heap0) > 0) =>
        /\ SubSeq(heap, 1, Len(heap0)) = heap0
        /\ dlast = "ok" =>
             /\ dataRef > Len(heap0)
             /\ \A i \in 1..Len(dcur.chans) :
                  LET ch == dcur.chans[i]
                      mine == IF heap0[origRef].t = "list" THEN heap0[origRef].v
                              ELSE heap0[heap0[origRef].m[ch]].v
                  IN  /\ heap[dataRef].m[ch] > Len(heap0)
                      /\ heap[heap[dataRef].m[ch]].v = mine \o <<mine[Len(mine)]>>

\* send_receive succeeded with a list of two channels and a dict.
C10_Witness ==
    /\ dcur.op = "send_receive"
    /\ dlast = "ok"
    /\ Len(dcur.chans) = 2
    /\ heap0[origRef].t = "dict"
    /\ Len(aoWrites) = 2
    /\ ntasks = 1

\* the number 'ai<N>' names
AiNumber(ch) == ParseInt(DigitsOf(ch))

\* C11: send_receive with n output samples per channel programs the task with
\* n + 1 samples (each output padded with a duplicate of its last value) and
\* returns exactly n samples for every monitored input and for the time
\* axis: the lowest-numbered monitored input drops the first sample received,
\* every other input and the time axis drop the last.
C11_PadAndTrim ==
    (dcur.op = "send_receive" /\ dlast = "ok") =>
        LET mine == IF heap0[origRef].t = "list" THEN heap0[origRef].v
                    ELSE heap0[heap0[origRef].m[dcur.chans[1]]].v
            n == Len(mine)
            monitored == {dcur.inputs[i] : i \in 1..Len(dcur.inputs)}
        IN  /\ nsamples = n + 1
            /\ \A i \in 1..Len(dcur.chans) :
                  Len(heap[heap[dataRef].m[dcur.chans[i]]].v) = n + 1
            /\ DOMAIN dataIn = monitored
            /\ \A ch \in monitored :
                  /\ Len(dataIn[ch]) = n
                  /\ IF \A o \in monitored : AiNumber(ch) <= AiNumber(o)
                     THEN dataIn[ch] = SubSeq(Received(n + 1), 2, n + 1)
                     ELSE dataIn[ch] = SubSeq(Received(n + 1), 1, n)
            /\ timeOut = SubSeq(Received(n + 1), 1, n)

\* send_receive returned three samples for two inputs, the lowest-numbered
\* of which was added last.
C11_Witness ==
    /\ dcur.op = "send_receive"
    /\ dlast = "ok"
    /\ dcur.inputs = << <<"a", "i", "2", "3">>, <<"a", "i", "3">> >>
    /\ nsamples = 4
    /\ dataIn[<<"a", "i", "3">>] = <<2, 3, 4>>
    /\ dataIn[<<"a", "i", "2", "3">>] = <<1, 2, 3>>

AccelSweepInRange ==
    /\ dcur.op = "sweep"
    /\ dcur.accel
    /\ \A k \in DOMAIN dcur.Vstart :
          Abs(dcur.Vstart[k]) <= SweepRange /\ Abs(dcur.Vend[k]) <= SweepRange

\* C12: sweep with accel=True trims off exactly the acceleration it added:
\* for Vstart[k] and Vend[k] in [-10, 10] it returns, and the V[k] it returns
\* is the original numsteps-point linear ramp from Vstart[k] to Vend[k].
C12_AccelTrimmed ==
    AccelSweepInRange =>
        /\ dlast = "ok"
        /\ \A k \in DOMAIN dcur.Vstart :
              sweepV[k] = Linspace(AccelScale * dcur.Vstart[k],
                                   AccelScale * dcur.Vend[k], dcur.n)

(***************************************************************************)
(* Properties of SR830                                                     *)
(***************************************************************************)

\* the smallest entry of _sensitivity_options that is >= v, by 0-based index
SmallestAbove(v) ==
    CHOOSE i \in 0..(Len(sensitivity_options) - 1) :
        /\ FxLe(v, sensitivity_options[i + 1])
        /\ \A j \in 0..(i - 1) : FxLt(sensitivity_options[j + 1], v)

\* the index the sensitivity setter is to select for v
SensitivityIndex(v) ==
    IF FxLt(Whole(1), v) THEN Len(sensitivity_options) - 1 ELSE SmallestAbove(v)

SetSensitivityDone == lcur.attr = "sensitivity"

\* C13 (as stated): setting sensitivity to v writes exactly one command, the
\* text 'SENS i' with a space, i being the index of the smallest option >= v
\* and 26 for every v > 1.
C13_WritesSensSpaceIndex ==
    SetSensitivityDone =>
        written = << <<"S", "E", "N", "S", " ">> \o FormatInt(SensitivityIndex(lcur.value.v)) >>

\* C13 (amended): setting sensitivity to v writes exactly one command, the
\* text 'SENS' followed directly by the decimal index i ('SENS%d'), i being
\* the index of the smallest option >= v and 26 for every v > 1.
C13_WritesSensIndex ==
    SetSensitivityDone =>
        /\ llast = "ok"
        /\ written = << <<"S", "E", "N", "S">> \o FormatInt(SensitivityIndex(lcur.value.v)) >>
        /\ FxLt(Whole(1), lcur.value.v) => ParseInt(DigitsOf(written[1])) = 26

\* sensitivity was set to 150e-6 and 'SENS15' (200e-6) was written.
C13_Witness ==
    /\ SetSensitivityDone
    /\ lcur.value.v = Micro(150)
    /\ written = << <<"S", "E", "N", "S", "1", "5">> >>

\* the largest entry of _time_constant_values that is <= v, by 0-based index
LargestBelow(v) ==
    CHOOSE i \in 0..(Len(time_constant_values) - 1) :
        /\ FxLe(time_constant_values[i + 1], v)
        /\ \A j \in (i + 1)..(Len(time_constant_values) - 1) :
              FxLt(v, time_constant_values[j + 1])

\* the duration a name '<n> <u>' denotes
Duration(name) ==
    CASE name.u = "us" -> Micro(name.n)
      [] name.u = "ms" -> Milli(name.n)
      [] name.u = "s" -> Whole(name.n)
      [] name.u = "ks" -> Whole(1000 * name.n)

OfltCommand(i) == <<"O", "F", "L", "T", " ">> \o FormatInt(i)

\* C14: setting time_constant to a number v (a Python float or int) writes
\* 'OFLT i', i being the index of the largest entry of _time_constant_values
\* that is <= v, and 0 for v < 10e-6; setting it to a string of
\* time_constant_options writes the index the table gives, which is the
\* position of the named duration in _time_constant_values; a string that is
\* not in the table raises and no command is written.
C14_TimeConstant ==
    (lcur.attr = "time_constant") =>
        /\ lcur.value.type \in {"float", "int"} =>
              /\ llast = "ok"
              /\ written = << OfltCommand(IF FxLt(lcur.value.v, Micro(10)) THEN 0
                                          ELSE LargestBelow(lcur.value.v)) >>
        /\ (lcur.value.type = "str" /\ lcur.value.v \in DOMAIN time_constant_options) =>
              /\ llast = "ok"
              /\ written = << OfltCommand(time_constant_options[lcur.value.v]) >>
              /\ time_constant_values[time_constant_options[lcur.value.v] + 1]
                    = Duration(lcur.value.v)
        /\ (lcur.value.type = "str" /\ lcur.value.v \notin DOMAIN time_constant_options) =>
              /\ llast \notin {"ok", "none"}
              /\ written = <<>>

\* time_constant was set to 29.999e-6 and 'OFLT 0' (10e-6) was written.
C14_Witness ==
    /\ lcur.attr = "time_constant"
    /\ lcur.value = [type |-> "float", v |-> Nano(29999)]
    /\ written = << <<"O", "F", "L", "T", " ", "0">> >>

(***************************************************************************)
(* Properties of HF2LI.aux_sweep                                           *)
(***************************************************************************)

\* C15: aux_sweep returns the samples of the sweeps it performed.  When the
\* gate loop completes, with a gate list and a Keithley it has run one sweep
\* per gate voltage in list order and returns a mapping with one entry per
\* gate voltage, keyed by the gate value and holding that sweep's data; with
\* no gate sweep it has run one sweep and returns its data under
\* 'nogatesweep'.
C15_ReturnsSamples ==
    (zpc = "done" /\ zexit = "completed") =>
        /\ zlast = "ok"
        /\ IF zargs.gatesweep.list /\ zargs.keithley
           THEN /\ sweepsRun = [i \in 1..Len(zargs.gatesweep.v) |-> Gate(zargs.gatesweep.v[i])]
                /\ DOMAIN zdata = {PyStr(Gate(zargs.gatesweep.v[i])) :
                                     i \in 1..Len(zargs.gatesweep.v)}
                /\ \A i \in 1..Len(sweepsRun) :
                      zdata[PyStr(sweepsRun[i])].gate = sweepsRun[i]
           ELSE /\ sweepsRun = <<NoGate>>
                /\ DOMAIN zdata = {PyStr(NoGate)}

LoopLeft == zpc = "done" /\ zexit \in {"completed", "gateVoltageError", "KeyboardInterrupt"}

\* C16: on every exit path of the gate loop (all gates completed,
\* gateVoltageError, KeyboardInterrupt) the outputs are ramped down before
\* the method ends: the Keithley, if given, is last set to I_compliance =
\* 1e-9 and Vout = 0, and the aux output is last swept to 0.
C16_RampedDown ==
    LoopLeft =>
        /\ zargs.keithley =>
              /\ Len(keithley) >= 2
              /\ SubSeq(keithley, Len(keithley) - 1, Len(keithley)) = RampDown
        /\ Len(auxOut) >= 1
        /\ auxOut[Len(auxOut)] = 0

\* C17: after a KeyboardInterrupt in the gate loop the sweeper, if one
\* exists, is finished, unsubscribed and cleared, and aux_sweep returns the
\* data of every gate value whose sweep completed before the interrupt,
\* raising nothing.
C17_InterruptReturnsData ==
    (zpc = "done" /\ zexit = "KeyboardInterrupt") =>
        /\ zlast = "ok"
        /\ sweeper.state \in {"unbound", "cleared"}
        /\ ~sweeper.subscribed
        /\ \A i \in 1..(Len(sweepsRun) - 1) : PyStr(sweepsRun[i]) \in DOMAIN zdata
        /\ DOMAIN zdata \subseteq {PyStr(sweepsRun[i]) : i \in 1..Len(sweepsRun)}

====
